---------------------------- MODULE Spec2Model ----------------------------
(* A model of junit_xml_to_allure.py: the conversion of JUnit XML suites    *)
(* and test cases into Allure result / container documents, and the main() *)
(* driver that walks the discovered input files.                           *)
(*                                                                         *)
(* Python strings are sequences of one-character strings, so that split,   *)
(* strip, join, startswith and float parsing are computed and not assumed. *)
(* An optional value (None or a value) is a sequence of length 0 or 1.     *)
EXTENDS Integers, Sequences, FiniteSets, TLC

VARIABLES
    args,          \* parsed command line (argparse namespace)
    inDir,         \* input directory: path -> XML file content (read only)
    outDir,        \* output directory: file name -> JSON document
    pc,            \* position of main(): start, file, suite, case, exited
    files,         \* main: the sorted list of discovered paths
    fi,            \* main: index in files of the file being converted
    suites,        \* convert_file: the suite elements of the current file
    si,            \* convert_file: index of the suite being converted
    ci,            \* convert_file: index of the next test case of the suite
    container,     \* convert_file: the container under construction
    suite_labels,  \* convert_file: labels derived from the suite name
    sp_labels,     \* convert_file: labels from the suite's properties
    sp_links,      \* convert_file: links from the suite's properties
    last_stop,     \* convert_file: the timing cursor
    now,           \* wall clock, milliseconds
    nextUuid,      \* number of uuid4() tokens handed out so far
    exitStatus,    \* process exit status, -1 while running
    stderr,        \* diagnostics written to standard error
    stdout,        \* lines printed to standard output
    hist,          \* history: documents written by the current run, in order
    run,           \* history: number of the current run of main()
    probe          \* a direct call of derive_suite_labels: arguments, result

vars == <<args, inDir, outDir, pc, files, fi, suites, si, ci, container,
          suite_labels, sp_labels, sp_links, last_stop, now, nextUuid,
          exitStatus, stderr, stdout, hist, run, probe>>

----------------------------------------------------------------------------
(* Bounds of the model.                                                    *)

MaxFiles == 2
MaxSuites == 1
MaxCases == 2
MaxTick == 1
MaxRuns == 2
MaxNameLen == 5

----------------------------------------------------------------------------
(* Python values.                                                          *)

None == <<>>
Some(x) == <<x>>
IsNone(o) == o = <<>>
Get(o) == o[1]

\* Python's `o or d` for an optional string: d when o is None or empty.
OrStr(o, d) == IF IsNone(o) \/ Get(o) = <<>> THEN d ELSE Get(o)

Whitespace == {" ", "\t", "\n", "\r"}

RECURSIVE lstrip(_)
lstrip(s) ==
    IF s # <<>> /\ Head(s) \in Whitespace THEN lstrip(Tail(s)) ELSE s

RECURSIVE rstrip(_)
rstrip(s) ==
    IF s # <<>> /\ s[Len(s)] \in Whitespace
    THEN rstrip(SubSeq(s, 1, Len(s) - 1))
    ELSE s

\* str.strip()
strip(s) == rstrip(lstrip(s))

\* str.startswith(prefix)
startswith(s, prefix) ==
    Len(s) >= Len(prefix) /\ SubSeq(s, 1, Len(prefix)) = prefix

\* str.find(sep) + 1: the first index where sep occurs in s, 0 when none.
find(s, sep) ==
    LET hits == {i \in 1..(Len(s) - Len(sep) + 1) :
                    SubSeq(s, i, i + Len(sep) - 1) = sep}
    IN IF hits = {} THEN 0 ELSE CHOOSE i \in hits : \A j \in hits : i <= j

\* str.rfind(sep) + 1
rfind(s, sep) ==
    LET hits == {i \in 1..(Len(s) - Len(sep) + 1) :
                    SubSeq(s, i, i + Len(sep) - 1) = sep}
    IN IF hits = {} THEN 0 ELSE CHOOSE i \in hits : \A j \in hits : i >= j

\* str.split(sep) for a non-empty sep: left to right, non-overlapping.
RECURSIVE split(_, _)
split(s, sep) ==
    LET i == find(s, sep)
    IN IF i = 0 THEN <<s>>
       ELSE <<SubSeq(s, 1, i - 1)>> \o split(SubSeq(s, i + Len(sep), Len(s)), sep)

\* sep.join(parts)
RECURSIVE join(_, _)
join(parts, sep) ==
    IF parts = <<>> THEN <<>>
    ELSE IF Len(parts) = 1 THEN parts[1]
    ELSE parts[1] \o sep \o join(Tail(parts), sep)

\* [f(x) for x in xs if keep(x)] with f the identity
RECURSIVE nonEmpty(_)
nonEmpty(xs) ==
    IF xs = <<>> THEN <<>>
    ELSE (IF Head(xs) # <<>> THEN <<Head(xs)>> ELSE <<>>) \o nonEmpty(Tail(xs))

----------------------------------------------------------------------------
(* String literals of the program.                                         *)

S_parentSuite == <<"p","a","r","e","n","t","S","u","i","t","e">>
S_suite == <<"s","u","i","t","e">>
S_subSuite == <<"s","u","b","S","u","i","t","e">>
S_framework == <<"f","r","a","m","e","w","o","r","k">>
S_language == <<"l","a","n","g","u","a","g","e">>
S_unknown == <<"u","n","k","n","o","w","n">>
S_package == <<"p","a","c","k","a","g","e">>
S_testClass == <<"t","e","s","t","C","l","a","s","s">>
S_testMethod == <<"t","e","s","t","M","e","t","h","o","d">>
S_test == <<"t","e","s","t">>
S_dot == <<".">>
S_coloncolon == <<":",":">>
P_label == <<"a","l","l","u","r","e",".","l","a","b","e","l",".">>
P_link == <<"a","l","l","u","r","e",".","l","i","n","k",".">>
P_param == <<"a","l","l","u","r","e",".","p","a","r","a","m",".">>

----------------------------------------------------------------------------
(* Helpers (lines 38-152 of the source).                                   *)

\* hashlib.md5(s.encode("utf-8")).hexdigest(): the digest is kept symbolic,
\* a value determined by the hashed string and by nothing else.
stable_hash(s) == [md5 |-> s]

split_classname(classname) ==
    IF classname = <<>> THEN <<<<>>, <<>>>>
    ELSE LET i == rfind(classname, S_dot)
         IN IF i # 0
            THEN <<SubSeq(classname, 1, i - 1),
                   SubSeq(classname, i + 1, Len(classname))>>
            ELSE <<<<>>, classname>>

Label(n, v) == [name |-> n, value |-> v]

\* A variant that keeps only the third part as subSuite.
derive_suite_labels_m(ts_name, sep, default_parent) ==
    LET raw == IF ts_name # <<>> THEN split(ts_name, sep) ELSE <<>>
        parts == [i \in 1..Len(raw) |-> strip(raw[i])]
    IN IF Len(parts) >= 3
       THEN <<Label(S_parentSuite, parts[1]), Label(S_suite, parts[2]),
              Label(S_subSuite, parts[3])>>
       ELSE IF Len(parts) = 2
       THEN <<Label(S_parentSuite, parts[1]), Label(S_suite, parts[2])>>
       ELSE IF Len(parts) = 1 /\ parts[1] # <<>>
       THEN <<Label(S_parentSuite, default_parent), Label(S_suite, parts[1])>>
       ELSE <<>>

derive_suite_labels(ts_name, sep, default_parent) ==
    LET raw == IF ts_name # <<>> THEN split(ts_name, sep) ELSE <<>>
        parts == [i \in 1..Len(raw) |-> strip(raw[i])]
    IN IF Len(parts) >= 3
       THEN <<Label(S_parentSuite, parts[1]), Label(S_suite, parts[2]),
              Label(S_subSuite, join(SubSeq(parts, 3, Len(parts)), sep))>>
       ELSE IF Len(parts) = 2
       THEN <<Label(S_parentSuite, parts[1]), Label(S_suite, parts[2])>>
       ELSE IF Len(parts) = 1 /\ parts[1] # <<>>
       THEN <<Label(S_parentSuite, default_parent), Label(S_suite, parts[1])>>
       ELSE <<>>


\* A dict literal {"message": msg, "trace": text}
Details(msg, text) == [k \in {"message", "trace"} |->
                          IF k = "message" THEN msg ELSE text]

\* The empty dict literal {}
EmptyDict == [k \in {} |-> <<>>]

\* The statusDetails of the "passed" outcome (line 100).
passed_details == EmptyDict

\* tc_elem: failure, error, skipped are the optional child elements, each
\* with optional attributes message, type and optional text.
map_status(tc_elem) ==
    LET failure == tc_elem.failure
        error == tc_elem.error
        skipped == tc_elem.skipped
    IN IF ~IsNone(failure)
       THEN <<"failed", Details(strip(OrStr(Get(failure).message, <<>>)),
                                strip(OrStr(Get(failure).text, <<>>)))>>
       ELSE IF ~IsNone(error)
       THEN <<"broken", Details(strip(OrStr(Get(error).message, <<>>)),
                                strip(OrStr(Get(error).text, <<>>)))>>
       ELSE IF ~IsNone(skipped)
       THEN <<"skipped",
              Details(strip(OrStr(Get(skipped).message,
                                  OrStr(Get(skipped).type, <<>>))),
                      strip(OrStr(Get(skipped).text, <<>>)))>>
       ELSE <<"passed", passed_details>>

Digits == <<"0", "1", "2", "3", "4", "5", "6", "7", "8", "9">>
IsDigit(c) == \E d \in 1..10 : Digits[d] = c
DigitVal(c) == (CHOOSE d \in 1..10 : Digits[d] = c) - 1

RECURSIVE Pow10(_)
Pow10(n) == IF n = 0 THEN 1 ELSE 10 * Pow10(n - 1)

RECURSIVE DigitsVal(_)
DigitsVal(s) ==
    IF s = <<>> THEN 0 ELSE 10 * DigitsVal(SubSeq(s, 1, Len(s) - 1)) + DigitVal(s[Len(s)])

S_nan == <<"n", "a", "n">>
S_inf == <<"i", "n", "f">>

\* float(s) for the decimal literals [ws][+-]digits[.digits][ws] and for
\* nan / inf: [kind |-> "error"] is ValueError, "special" is nan or an
\* infinity, "num" is the number sign * mant / 10^scale.
float(s) ==
    LET t == strip(s)
        signed == t # <<>> /\ Head(t) \in {"+", "-"}
        sign == IF signed /\ Head(t) = "-" THEN -1 ELSE 1
        body == IF signed THEN Tail(t) ELSE t
        dot == find(body, S_dot)
        ip == IF dot = 0 THEN body ELSE SubSeq(body, 1, dot - 1)
        fp == IF dot = 0 THEN <<>> ELSE SubSeq(body, dot + 1, Len(body))
    IN IF body \in {S_nan, S_inf}
       THEN [kind |-> "special"]
       ELSE IF /\ ip \o fp # <<>>
               /\ \A i \in 1..Len(ip) : IsDigit(ip[i])
               /\ \A i \in 1..Len(fp) : IsDigit(fp[i])
       THEN [kind |-> "num", sign |-> sign, mant |-> DigitsVal(ip \o fp),
             scale |-> Len(fp)]
       ELSE [kind |-> "error"]

\* int(x * 1000.0): truncation toward zero; int() of nan or of an infinity
\* raises, and to_ms catches every exception.
to_ms(seconds_str) ==
    IF IsNone(seconds_str) THEN None
    ELSE LET x == float(Get(seconds_str))
         IN IF x.kind = "num"
            THEN Some(x.sign * ((x.mant * 1000) \div Pow10(x.scale)))
            ELSE None

\* max(start + 1, start) of line 119
fallback_stop(start) == IF start + 1 >= start THEN start + 1 ELSE start

testcase_timing(tc, suite_start_ms) ==
    LET duration == to_ms(tc.time)
    IN IF IsNone(duration)
       THEN <<suite_start_ms, fallback_stop(suite_start_ms)>>
       ELSE <<suite_start_ms, suite_start_ms + Get(duration)>>

\* A Python dict as the sequence of its (key, value) items in insertion
\* order: assigning an existing key keeps its place and replaces its value.
dict_set(d, k, v) ==
    IF \E i \in 1..Len(d) : d[i].k = k
    THEN [i \in 1..Len(d) |-> IF d[i].k = k THEN [k |-> k, v |-> v] ELSE d[i]]
    ELSE Append(d, [k |-> k, v |-> v])

RECURSIVE props_of(_)
props_of(ps) ==
    IF ps = <<>> THEN <<>>
    ELSE LET p == ps[Len(ps)]
             d == props_of(SubSeq(ps, 1, Len(ps) - 1))
         IN IF ~IsNone(p.name) /\ Get(p.name) # <<>>
            THEN dict_set(d, Get(p.name), OrStr(p.value, <<>>))
            ELSE d

\* elem.properties: the first <properties> child, None when there is none.
collect_properties(tc) ==
    IF ~IsNone(tc.properties) THEN props_of(Get(tc.properties)) ELSE <<>>

RECURSIVE route(_, _, _)
route(props, prefix, field) ==
    IF props = <<>> THEN <<>>
    ELSE LET it == Head(props)
             n == SubSeq(it.k, Len(prefix) + 1, Len(it.k))
         IN (IF startswith(it.k, prefix)
             THEN <<IF field = "url" THEN [name |-> n, url |-> it.v]
                    ELSE [name |-> n, value |-> it.v]>>
             ELSE <<>>) \o route(Tail(props), prefix, field)

\* The three prefixes are mutually exclusive, so the if / elif chain routes
\* each key to the list of the one prefix it starts with.
map_properties_to_labels_links_params(props) ==
    <<route(props, P_label, "value"), route(props, P_link, "url"),
      route(props, P_param, "value")>>

----------------------------------------------------------------------------
(* Core conversion (lines 156-278 of the source).                          *)

\* The names bound by the import statements of the module.
Imports == {"argparse", "json", "os", "re", "time", "uuid", "hashlib",
            "ET", "Path", "Dict", "List", "Tuple", "Optional"}

\* Names of the files of the output directory.
ResultFile(u) == [uuid |-> u, suffix |-> "-result.json"]
ContainerFile(u) == [uuid |-> u, suffix |-> "-container.json"]
ExecutorFile == [uuid |-> 0, suffix |-> "executor.json"]

\* open(path, "w") and json.dump: creates the file or replaces its content.
write(dir, fname, doc) == (fname :> doc) @@ dir

\* xml_path.stem of input file number p, which stands for "f<p>.xml".
stem(p) == <<"f", Digits[p + 1]>>

\* sorted(): the paths in ascending order.
RECURSIVE sorted(_)
sorted(S) ==
    IF S = {} THEN <<>>
    ELSE LET m == CHOOSE x \in S : \A y \in S : x <= y
         IN <<m>> \o sorted(S \ {m})

RECURSIVE unsorted(_)
unsorted(S) ==
    IF S = {} THEN <<>>
    ELSE LET m == CHOOSE x \in S : \A y \in S : x >= y
         IN <<m>> \o unsorted(S \ {m})

\* A variant that returns the paths without sorting them, here in
\* descending order.
find_xml_files_m(input_path) == unsorted(DOMAIN input_path)

\* A single .xml file is the directory that holds just that file.
find_xml_files(input_path) == sorted(DOMAIN input_path)

\* Lines 160-168: a root is a record with its tag, its own suite fields,
\* its direct <testsuite> children and all its <testsuite> descendants.
suites_of(root) ==
    IF root.tag = "testsuite" THEN <<root>>
    ELSE IF root.tag = "testsuites" THEN root.children
    ELSE root.descendants

\* Lines 175-184
new_container(suite_uuid, ts_name, suite_start) ==
    [uuid |-> suite_uuid, name |-> ts_name, children |-> <<>>,
     befores |-> <<>>, afters |-> <<>>, links |-> <<>>,
     start |-> suite_start, stop |-> suite_start]

\* A variant that puts the new child first.
add_child_m(c, tr_uuid, stop) ==
    [c EXCEPT !.children = <<tr_uuid>> \o @,
              !.stop = IF @ >= stop THEN @ ELSE stop]

\* Lines 257-258
add_child(c, tr_uuid, stop) ==
    [c EXCEPT !.children = Append(@, tr_uuid),
              !.stop = IF @ >= stop THEN @ ELSE stop]

\* A variant that hashes classname and name instead of the full name.
history_id_m(full_name, classname, name) ==
    stable_hash(classname \o S_coloncolon \o name)

\* Lines 215-216
history_id(full_name, classname, name) ==
    stable_hash(IF full_name # <<>> THEN full_name
                ELSE classname \o S_coloncolon \o name)

RECURSIVE props_upto(_, _)
props_upto(testcases, i) ==
    IF i = 0 THEN <<>>
    ELSE props_upto(testcases, i - 1)
         \o (IF IsNone(testcases[i].properties) THEN <<>>
             ELSE Get(testcases[i].properties))

\* A variant whose props dict is not emptied between the cases of a suite.
case_extensions_m(testcases, i) ==
    map_properties_to_labels_links_params(props_of(props_upto(testcases, i)))

\* Lines 210-211: the labels, links and parameters of test case i of a suite.
case_extensions(testcases, i) ==
    map_properties_to_labels_links_params(collect_properties(testcases[i]))

\* Lines 218-233
result_labels(framework_name, pkg, cls, method, s_labels, spl, p_labels) ==
    <<Label(S_framework, framework_name), Label(S_language, S_unknown)>>
    \o (IF pkg # <<>> THEN <<Label(S_package, pkg)>> ELSE <<>>)
    \o (IF cls # <<>> THEN <<Label(S_testClass, cls)>> ELSE <<>>)
    \o (IF method # <<>> THEN <<Label(S_testMethod, method)>> ELSE <<>>)
    \o s_labels \o spl \o p_labels

\* Lines 264-271
executor == [name |-> "XML Converter", type |-> "other", buildName |-> "",
             buildUrl |-> "", reportUrl |-> ""]

\* One iteration of the test case loop (lines 199-258): the result document
\* of test case tc, given the cursor and the fresh identifier.
result_of(testcases, i, cursor, tr_uuid) ==
    LET tc == testcases[i]
        classname == OrStr(tc.classname, <<>>)
        name == OrStr(tc.name, S_test)
        pc_ == split_classname(classname)
        pkg == pc_[1]
        cls == pc_[2]
        method == name
        st == map_status(tc)
        tm == testcase_timing(tc, cursor)
        ext == case_extensions(testcases, i)
        full_name == join(nonEmpty(<<pkg, cls, method>>), S_dot)
    IN [uuid |-> tr_uuid,
        historyId |-> history_id(full_name, classname, name),
        name |-> method,
        fullName |-> IF full_name # <<>> THEN full_name ELSE method,
        status |-> st[1],
        statusDetails |-> st[2],
        stage |-> "finished",
        steps |-> <<>>,
        attachments |-> <<>>,
        parameters |-> ext[3],
        labels |-> result_labels(args.framework_name, pkg, cls, method,
                                 suite_labels, sp_labels, ext[1]),
        links |-> sp_links \o ext[2],
        start |-> tm[1],
        stop |-> tm[2]]

----------------------------------------------------------------------------
(* The steps of main() and convert_file().                                 *)

Now0 == 3

Event(kind, fname) ==
    [kind |-> kind, path |-> IF fi \in 1..Len(files) THEN files[fi] ELSE 0,
     si |-> si, ci |-> ci, file |-> fname]

\* Lines 290-297 with no input file: `sys` is not among the imported names,
\* so evaluating sys.stderr raises NameError before print and before
\* sys.exit; the uncaught exception ends the process with status 1.
NoFiles ==
    /\ pc = "start"
    /\ find_xml_files(inDir) = <<>>
    /\ files' = <<>>
    /\ IF "sys" \in Imports
       THEN /\ stderr' = Append(stderr, "No XML files found.")
            /\ exitStatus' = 2
       ELSE /\ stderr' = Append(stderr, "NameError: name 'sys' is not defined")
            /\ exitStatus' = 1
    /\ pc' = "exited"
    /\ UNCHANGED <<args, inDir, outDir, fi, suites, si, ci, container,
                   suite_labels, sp_labels, sp_links, last_stop, now,
                   nextUuid, stdout, hist, run, probe>>

\* Lines 290-299 with input files: enter the loop over the files.
Discover ==
    /\ pc = "start"
    /\ find_xml_files(inDir) # <<>>
    /\ files' = find_xml_files(inDir)
    /\ fi' = 1
    /\ pc' = "file"
    /\ UNCHANGED <<args, inDir, outDir, suites, si, ci, container,
                   suite_labels, sp_labels, sp_links, last_stop, now,
                   nextUuid, exitStatus, stderr, stdout, hist, run, probe>>

\* Lines 157-168: ET.parse of a well-formed file, and the suite list.
ParseFile ==
    /\ pc = "file"
    /\ fi <= Len(files)
    /\ inDir[files[fi]].wellformed
    /\ suites' = suites_of(inDir[files[fi]].root)
    /\ si' = 1
    /\ pc' = "suite"
    /\ UNCHANGED <<args, inDir, outDir, files, fi, ci, container,
                   suite_labels, sp_labels, sp_links, last_stop, now,
                   nextUuid, exitStatus, stderr, stdout, hist, run, probe>>

\* Line 157: ET.parse raises ParseError, which nothing catches: main() ends
\* with the traceback and status 1.
ParseError ==
    /\ pc = "file"
    /\ fi <= Len(files)
    /\ ~inDir[files[fi]].wellformed
    /\ stderr' = Append(stderr, "xml.etree.ElementTree.ParseError")
    /\ exitStatus' = 1
    /\ pc' = "exited"
    /\ UNCHANGED <<args, inDir, outDir, files, fi, suites, si, ci, container,
                   suite_labels, sp_labels, sp_links, last_stop, now,
                   nextUuid, stdout, hist, run, probe>>

\* Lines 171-198: the head of the loop over the suites. ms_now() reads a
\* clock that does not run backwards.
BeginSuite ==
    /\ pc = "suite"
    /\ si <= Len(suites)
    /\ \E t \in now..(now + 1) :
        /\ t <= Now0 + MaxTick
        /\ LET ts == suites[si]
               ts_name == OrStr(ts.name, stem(files[fi]))
               ext == map_properties_to_labels_links_params(collect_properties(ts))
           IN /\ now' = t
              /\ nextUuid' = nextUuid + 1
              /\ container' = Some(new_container(nextUuid + 1, ts_name, t))
              /\ suite_labels' = derive_suite_labels(ts_name, args.suite_split,
                                                     args.default_parent)
              /\ sp_labels' = ext[1]
              /\ sp_links' = ext[2]
              /\ last_stop' = t
    /\ ci' = 1
    /\ pc' = "case"
    /\ UNCHANGED <<args, inDir, outDir, files, fi, suites, si, exitStatus,
                   stderr, stdout, hist, run, probe>>

\* Lines 199-258: one test case.
ConvertCase ==
    /\ pc = "case"
    /\ ci <= Len(suites[si].testcases)
    /\ LET c == Get(container)
           cursor == IF last_stop # 0 THEN last_stop ELSE c.start
           tr_uuid == nextUuid + 1
           result == result_of(suites[si].testcases, ci, cursor, tr_uuid)
       IN /\ nextUuid' = tr_uuid
          /\ last_stop' = result.stop
          /\ outDir' = write(outDir, ResultFile(tr_uuid), result)
          /\ container' = Some(add_child(c, tr_uuid, result.stop))
          /\ hist' = Append(hist, Event("result", ResultFile(tr_uuid)))
    /\ ci' = ci + 1
    /\ UNCHANGED <<args, inDir, pc, files, fi, suites, si, suite_labels,
                   sp_labels, sp_links, now, exitStatus, stderr, stdout,
                   run, probe>>

\* Lines 260-262: the suite's container is written after its last case.
EndSuite ==
    /\ pc = "case"
    /\ ci > Len(suites[si].testcases)
    /\ outDir' = write(outDir, ContainerFile(Get(container).uuid), Get(container))
    /\ hist' = Append(hist, Event("container", ContainerFile(Get(container).uuid)))
    /\ si' = si + 1
    /\ pc' = "suite"
    /\ UNCHANGED <<args, inDir, files, fi, suites, ci, container,
                   suite_labels, sp_labels, sp_links, last_stop, now,
                   nextUuid, exitStatus, stderr, stdout, run, probe>>

\* Lines 299-300: convert_file returns, the loop takes the next file.
EndFile ==
    /\ pc = "suite"
    /\ si > Len(suites)
    /\ fi' = fi + 1
    /\ pc' = "file"
    /\ UNCHANGED <<args, inDir, outDir, files, suites, si, ci, container,
                   suite_labels, sp_labels, sp_links, last_stop, now,
                   nextUuid, exitStatus, stderr, stdout, hist, run, probe>>

\* Lines 302-305: after the last file.
Finish ==
    /\ pc = "file"
    /\ fi > Len(files)
    /\ IF args.write_executor
       THEN /\ outDir' = write(outDir, ExecutorFile, executor)
            /\ hist' = Append(hist, Event("executor", ExecutorFile))
       ELSE UNCHANGED <<outDir, hist>>
    /\ stdout' = Append(stdout, "Wrote Allure results to:")
    /\ exitStatus' = 0
    /\ pc' = "exited"
    /\ UNCHANGED <<args, inDir, files, fi, suites, si, ci, container,
                   suite_labels, sp_labels, sp_links, last_stop, now,
                   nextUuid, stderr, run, probe>>

\* The program is run again on the same input and output directories: a
\* new process, with the output directory and the clock as they are.
Rerun ==
    /\ pc = "exited"
    /\ run < MaxRuns
    /\ run' = run + 1
    /\ pc' = "start"
    /\ files' = <<>>
    /\ fi' = 0
    /\ suites' = <<>>
    /\ si' = 0
    /\ ci' = 0
    /\ container' = None
    /\ suite_labels' = <<>>
    /\ sp_labels' = <<>>
    /\ sp_links' = <<>>
    /\ last_stop' = 0
    /\ exitStatus' = -1
    /\ stderr' = <<>>
    /\ stdout' = <<>>
    /\ hist' = <<>>
    /\ UNCHANGED <<args, inDir, outDir, now, nextUuid, probe>>

\* A direct call of derive_suite_labels.
CallDerive ==
    /\ pc = "call"
    /\ probe.labels = None
    /\ probe' = [probe EXCEPT !.labels =
                    Some(derive_suite_labels(probe.ts_name, probe.sep,
                                             probe.default_parent))]
    /\ pc' = "returned"
    /\ UNCHANGED <<args, inDir, outDir, files, fi, suites, si, ci, container,
                   suite_labels, sp_labels, sp_links, last_stop, now,
                   nextUuid, exitStatus, stderr, stdout, hist, run>>

Next ==
    \/ NoFiles
    \/ Discover
    \/ ParseFile
    \/ ParseError
    \/ BeginSuite
    \/ ConvertCase
    \/ EndSuite
    \/ EndFile
    \/ Finish

NextRuns == Next \/ Rerun

NextDerive == CallDerive

----------------------------------------------------------------------------
(* Inputs: XML elements, input directories, command lines.                 *)

Case(cn, nm, tm, fl, er, sk, pr) ==
    [classname |-> cn, name |-> nm, time |-> tm, failure |-> fl,
     error |-> er, skipped |-> sk, properties |-> pr]

Suite(nm, pr, tcs) ==
    [tag |-> "testsuite", name |-> nm, properties |-> pr, testcases |-> tcs,
     children |-> <<>>, descendants |-> <<>>]

\* A root that is no suite: its direct and its nested <testsuite> elements.
Root(tag, ch, desc) ==
    [tag |-> tag, name |-> None, properties |-> None, testcases |-> <<>>,
     children |-> ch, descendants |-> desc]

File(root) == [wellformed |-> TRUE, root |-> root]
Malformed == [wellformed |-> FALSE, root |-> Root("", <<>>, <<>>)]

Prop(n, v) == [name |-> n, value |-> v]
Marker(m, t, x) == [message |-> m, type |-> t, text |-> x]

\* argparse defaults of lines 284-287
DefaultArgs ==
    [write_executor |-> FALSE,
     suite_split |-> <<" ", "/", " ">>,
     default_parent |-> <<"T", "e", "s", "t", "s">>,
     framework_name |-> <<"j", "u", "n", "i", "t", "-", "x", "m", "l">>]

ArgSets == {[DefaultArgs EXCEPT !.write_executor = w] : w \in BOOLEAN}

DefaultCase ==
    Case(Some(<<"p", ".", "C">>), Some(<<"m">>), None, None, None, None, None)

SeqsUpTo(A, n) == UNION {[1..k -> A] : k \in 0..n}

\* A directory with no .xml file, and one whose only file is malformed.
EdgeDirs == {<<>>, <<Malformed>>}

\* Structure: up to MaxFiles files, each malformed or a <testsuites> root
\* of up to MaxSuites suites of up to MaxCases cases; and the two other
\* shapes of root.
UniformFile(n, k) ==
    File(Root("testsuites",
              [i \in 1..n |-> Suite(Some(<<"S">>), None,
                                    [j \in 1..k |-> DefaultCase])],
              <<>>))

RegularFiles ==
    {Malformed, UniformFile(0, 0)}
    \cup {UniformFile(n, k) : n \in 1..MaxSuites, k \in 0..MaxCases}

TagDirs ==
    {<<File(Suite(None, None, <<DefaultCase>>))>>,
     <<File(Root("report", <<>>,
                 <<Suite(Some(<<"S">>), None, <<DefaultCase>>),
                   Suite(Some(<<"N">>), None, <<>>)>>))>>}

StructDirs == SeqsUpTo(RegularFiles, MaxFiles) \cup TagDirs

OneSuiteDir(tcs) ==
    <<File(Root("testsuites", <<Suite(Some(<<"S">>), None, tcs)>>, <<>>))>>

\* Timing: one suite whose cases differ in their time attribute.
TimeAttrs ==
    {None, Some(<<"a", "b", "c">>), Some(<<"n", "a", "n">>), Some(<<"0">>),
     Some(<<"0", ".", "0", "0", "0", "5">>), Some(<<"0", ".", "0", "0", "2">>),
     Some(<<"-", "0", ".", "0", "0", "3">>), Some(<<"-", "0", ".", "0", "0", "1">>)}

TimedCase(t) == [DefaultCase EXCEPT !.time = t]

TimingDirs ==
    {OneSuiteDir([i \in 1..Len(ts) |-> TimedCase(ts[i])]) :
        ts \in SeqsUpTo(TimeAttrs, MaxCases)}

\* Status: one case with every combination of outcome markers.
Markers ==
    {Marker(None, None, None),
     Marker(Some(<<" ", "X", " ">>), Some(<<"i", "g">>), Some(<<" ", "t", "\n">>)),
     Marker(None, Some(<<"i", "g", " ">>), None),
     Marker(Some(<<>>), Some(<<"i", "g">>), Some(<<>>))}

OptMarkers == {None} \cup {Some(m) : m \in Markers}

StatusDirs ==
    {OneSuiteDir(<<[DefaultCase EXCEPT !.failure = f, !.error = e,
                                       !.skipped = k]>>) :
        f \in OptMarkers, e \in OptMarkers, k \in OptMarkers}

\* Properties: two suites, the first with up to MaxCases cases, each case
\* with one of a few <properties> elements.
K_epic == P_label \o <<"e">>
K_feature == P_label \o <<"f">>
K_issue == P_link \o <<"i">>
K_arg == P_param \o <<"a">>

PropLists ==
    {None,
     Some(<<Prop(Some(K_epic), Some(<<"P">>))>>),
     Some(<<Prop(Some(K_epic), Some(<<"Q">>)), Prop(Some(K_issue), Some(<<"u">>)),
            Prop(Some(<<"x">>), None), Prop(None, Some(<<"v">>)),
            Prop(Some(K_feature), None), Prop(Some(K_arg), Some(<<"1">>)),
            Prop(Some(K_epic), Some(<<"R">>))>>)}

SuitePropLists == {None, Some(<<Prop(Some(P_label \o <<"s">>), Some(<<"Z">>))>>)}

PropCase(pl) == [DefaultCase EXCEPT !.properties = pl]

PropDirs ==
    {<<File(Root("testsuites",
                 <<Suite(Some(<<"A">>), sp, [i \in 1..Len(a) |-> PropCase(a[i])]),
                   Suite(Some(<<"B">>), None, [i \in 1..Len(b) |-> PropCase(b[i])])>>,
                 <<>>))>> :
        sp \in SuitePropLists, a \in SeqsUpTo(PropLists, MaxCases),
        b \in SeqsUpTo(PropLists, 1)}

\* Names: one suite whose cases differ in classname and name.
NamePairs ==
    {<<Some(<<"a", ".", "b">>), Some(<<"c">>)>>,
     <<Some(<<"a">>), Some(<<"b", ".", "c">>)>>,
     <<None, Some(<<"a", ".", "b", ".", "c">>)>>,
     <<Some(<<"b">>), Some(<<"c">>)>>,
     <<Some(<<>>), None>>,
     <<None, Some(S_test)>>}

NamedCase(p) == [DefaultCase EXCEPT !.classname = p[1], !.name = p[2]]

NameDirs ==
    {OneSuiteDir([i \in 1..Len(ps) |-> NamedCase(ps[i])]) :
        ps \in SeqsUpTo(NamePairs, MaxCases)}

\* Suite names for the direct calls of derive_suite_labels.
NameChars == {"a", "/", " "}

Probes ==
    [ts_name : SeqsUpTo(NameChars, MaxNameLen),
     sep : {<<"/">>, <<" ", "/">>},
     default_parent : {<<"T">>},
     labels : {None}]
    \cup
    [ts_name : {<<"W", " ", "/", " ", "C", " ", "/", " ", "K">>,
                <<"W", " ", "/", " ", "C", " ", " ", "/", " ", "K", " ", "/", " ", "L">>,
                <<"C", "h", "e", "c", "k", "o", "u", "t">>,
                <<"W", " ", "/", " ", "C">>, <<>>},
     sep : {<<" ", "/", " ">>},
     default_parent : {<<"T", "e", "s", "t", "s">>},
     labels : {None}]

NoProbe == [ts_name |-> <<>>, sep |-> <<>>, default_parent |-> <<>>,
            labels |-> None]

----------------------------------------------------------------------------
(* Specifications.                                                         *)

EmptyDir == [f \in {} |-> <<>>]

\* The state when main() is entered.
InitRun ==
    /\ outDir = EmptyDir
    /\ pc = "start"
    /\ files = <<>>
    /\ fi = 0
    /\ suites = <<>>
    /\ si = 0
    /\ ci = 0
    /\ container = None
    /\ suite_labels = <<>>
    /\ sp_labels = <<>>
    /\ sp_links = <<>>
    /\ last_stop = 0
    /\ now = Now0
    /\ nextUuid = 0
    /\ exitStatus = -1
    /\ stderr = <<>>
    /\ stdout = <<>>
    /\ hist = <<>>
    /\ run = 1
    /\ probe = NoProbe

Init == InitRun /\ args \in ArgSets /\ inDir \in StructDirs

InitTiming ==
    InitRun /\ args \in ArgSets /\ inDir \in TimingDirs \cup EdgeDirs

InitStatus ==
    InitRun /\ args \in ArgSets /\ inDir \in StatusDirs \cup EdgeDirs

InitProps ==
    InitRun /\ args \in ArgSets /\ inDir \in PropDirs \cup EdgeDirs

InitNames ==
    InitRun /\ args \in ArgSets /\ inDir \in NameDirs \cup EdgeDirs

InitDerive ==
    /\ outDir = EmptyDir
    /\ pc = "call"
    /\ files = <<>>
    /\ fi = 0
    /\ suites = <<>>
    /\ si = 0
    /\ ci = 0
    /\ container = None
    /\ suite_labels = <<>>
    /\ sp_labels = <<>>
    /\ sp_links = <<>>
    /\ last_stop = 0
    /\ now = Now0
    /\ nextUuid = 0
    /\ exitStatus = -1
    /\ stderr = <<>>
    /\ stdout = <<>>
    /\ hist = <<>>
    /\ run = 1
    /\ args = DefaultArgs
    /\ inDir = <<>>
    /\ probe \in Probes

Spec == Init /\ [][Next]_vars
SpecTiming == InitTiming /\ [][Next]_vars
SpecStatus == InitStatus /\ [][Next]_vars
SpecProps == InitProps /\ [][Next]_vars
SpecNames == InitNames /\ [][NextRuns]_vars
SpecDerive == InitDerive /\ [][NextDerive]_vars

----------------------------------------------------------------------------
(* Reading the output directory and the history.                           *)

ResultFiles == {f \in DOMAIN outDir : f.suffix = "-result.json"}
ContainerFiles == {f \in DOMAIN outDir : f.suffix = "-container.json"}

Events(kind) == {i \in 1..Len(hist) : hist[i].kind = kind}

\* The suite, and the test case, an event of the history was written for.
SuiteOf(e) == suites_of(inDir[e.path].root)[e.si]
CaseOf(e) == SuiteOf(e).testcases[e.ci]

\* The result documents of a container's children, in the children's order.
ChildDocs(c) == [i \in 1..Len(c.children) |-> outDir[ResultFile(c.children[i])]]

Completed == pc = "exited" /\ exitStatus = 0

Min2(a, b) == IF a <= b THEN a ELSE b
Max2(a, b) == IF a >= b THEN a ELSE b

\* Two spans share more than an end point.
Overlap(a, b) ==
    Max2(Min2(a.start, a.stop), Min2(b.start, b.stop))
        < Min2(Max2(a.start, a.stop), Max2(b.start, b.stop))

----------------------------------------------------------------------------
(* Claims.                                                                 *)

\* C1: every result document written by convert_file has stop > start,
\* whatever the case's time attribute is: absent, unparsable, or any
\* number, "0" and values below one millisecond included.
C1_StopAfterStart ==
    \A f \in ResultFiles : outDir[f].stop > outDir[f].start

\* C2: after a run that completes, the container written for a suite of k
\* test cases has exactly k children, in the order of the cases, each the
\* identifier of the result document written for that case; every result
\* document's identifier is a child of exactly one written container, and
\* every child names exactly one written result document.
C2_ChildrenMatchResults ==
    Completed =>
        /\ \A p \in DOMAIN inDir :
             \A s \in 1..Len(suites_of(inDir[p].root)) :
                LET cs == {i \in Events("container") :
                              hist[i].path = p /\ hist[i].si = s}
                    k == Len(suites_of(inDir[p].root)[s].testcases)
                IN /\ Cardinality(cs) = 1
                   /\ \A i \in cs :
                        /\ hist[i].file \in DOMAIN outDir
                        /\ Len(outDir[hist[i].file].children) = k
                        /\ \A j \in 1..k :
                             LET rs == {r \in Events("result") :
                                           /\ hist[r].path = p
                                           /\ hist[r].si = s
                                           /\ hist[r].ci = j}
                                 u == outDir[hist[i].file].children[j]
                             IN /\ Cardinality(rs) = 1
                                /\ \A r \in rs :
                                     /\ hist[r].file = ResultFile(u)
                                     /\ hist[r].file \in DOMAIN outDir
                                     /\ outDir[hist[r].file].uuid = u
        /\ \A f \in ResultFiles :
             Cardinality(UNION {{<<c, j>> : j \in {j \in 1..Len(outDir[c].children) :
                                        outDir[c].children[j] = outDir[f].uuid}} :
                                c \in ContainerFiles}) = 1
        /\ \A c \in ContainerFiles :
             \A j \in 1..Len(outDir[c].children) :
                Cardinality({f \in ResultFiles :
                                outDir[f].uuid = outDir[c].children[j]}) = 1

\* C2's case: a completed run that wrote two containers, one of them with
\* two children.
C2_Witness ==
    /\ Completed
    /\ Cardinality(ContainerFiles) >= 2
    /\ \E c \in ContainerFiles : Len(outDir[c].children) = 2

\* C3: a written container's stop is the greatest stop of the result
\* documents of its cases (its start when it has no case), and its stop is
\* not before its start, for every combination of time attributes.
C3_ContainerStopIsMax ==
    \A c \in ContainerFiles :
        LET d == outDir[c]
            ch == ChildDocs(d)
        IN /\ Len(ch) = 0 => d.stop = d.start
           /\ Len(ch) > 0 =>
                /\ \E i \in 1..Len(ch) : d.stop = ch[i].stop
                /\ \A i \in 1..Len(ch) : d.stop >= ch[i].stop
           /\ d.stop >= d.start

\* C4: map_status takes the first marker present in the order failure,
\* error, skipped ("failed", "broken", "skipped", else "passed"), and in
\* each of the four outcomes the detail has a message and a trace entry,
\* stripped, the empty string when the source value is absent; the message
\* of a skipped case is the message attribute, else the type attribute.
C4_MapStatus ==
    \A i \in Events("result") :
        LET tc == CaseOf(hist[i])
            d == outDir[hist[i].file]
            m == IF ~IsNone(tc.failure) THEN tc.failure
                 ELSE IF ~IsNone(tc.error) THEN tc.error
                 ELSE tc.skipped
            msg == IF IsNone(m) THEN <<>>
                   ELSE IF IsNone(tc.failure) /\ IsNone(tc.error)
                   THEN OrStr(Get(m).message, OrStr(Get(m).type, <<>>))
                   ELSE OrStr(Get(m).message, <<>>)
            txt == IF IsNone(m) THEN <<>> ELSE OrStr(Get(m).text, <<>>)
        IN /\ d.status = IF ~IsNone(tc.failure) THEN "failed"
                         ELSE IF ~IsNone(tc.error) THEN "broken"
                         ELSE IF ~IsNone(tc.skipped) THEN "skipped"
                         ELSE "passed"
           /\ DOMAIN d.statusDetails = {"message", "trace"}
           /\ d.statusDetails["message"] = strip(msg)
           /\ d.statusDetails["trace"] = strip(txt)

\* C5: derive_suite_labels splits the name on sep and strips each part;
\* three or more parts give parentSuite = part 0, suite = part 1 and
\* subSuite = the other parts joined with sep; two parts give parentSuite
\* and suite; one non-empty part gives parentSuite = default_parent and
\* suite = the part; the empty name gives no label. The labels come in the
\* order parentSuite, suite, subSuite.
C5_DeriveSuiteLabels ==
    pc = "returned" =>
        LET r == Get(probe.labels)
            raw == split(probe.ts_name, probe.sep)
            part(i) == strip(raw[i])
            n == Len(raw)
        IN /\ probe.ts_name = <<>> => r = <<>>
           /\ probe.ts_name # <<>> /\ n >= 3 =>
                /\ Len(r) = 3
                /\ r[1] = Label(S_parentSuite, part(1))
                /\ r[2] = Label(S_suite, part(2))
                /\ r[3] = Label(S_subSuite,
                                join([i \in 1..(n - 2) |-> part(i + 2)], probe.sep))
           /\ probe.ts_name # <<>> /\ n = 2 =>
                r = <<Label(S_parentSuite, part(1)), Label(S_suite, part(2))>>
           /\ probe.ts_name # <<>> /\ n = 1 /\ part(1) # <<>> =>
                r = <<Label(S_parentSuite, probe.default_parent),
                      Label(S_suite, part(1))>>
           /\ \A i \in 1..Len(r) :
                r[i].name = <<S_parentSuite, S_suite, S_subSuite>>[i]

\* C5's case: a name of four parts, whose subSuite holds the separator.
C5_Witness ==
    /\ pc = "returned"
    /\ Len(split(probe.ts_name, probe.sep)) >= 4
    /\ Len(Get(probe.labels)) = 3
    /\ find(Get(probe.labels)[3].value, probe.sep) # 0

\* The labels a <properties> element declares: one for each key that starts
\* with "allure.label.", with the value of the key's last declaration.
DeclaredLabels(elem) ==
    IF IsNone(elem.properties) THEN {}
    ELSE LET ps == Get(elem.properties)
             named == {i \in 1..Len(ps) :
                          /\ ~IsNone(ps[i].name)
                          /\ startswith(Get(ps[i].name), P_label)}
             last == {i \in named :
                         \A j \in named : ps[j].name = ps[i].name => j <= i}
         IN {Label(SubSeq(Get(ps[i].name), Len(P_label) + 1, Len(Get(ps[i].name))),
                   OrStr(ps[i].value, <<>>)) : i \in last}

\* The names of the labels convert_file adds by itself.
BuiltinLabelNames ==
    {S_framework, S_language, S_package, S_testClass, S_testMethod,
     S_parentSuite, S_suite, S_subSuite}

LabelSet(doc) == {doc.labels[i] : i \in 1..Len(doc.labels)}

C7_HistoryIdByFullName ==
    \A f, g \in ResultFiles :
        outDir[f].fullName = outDir[g].fullName
            => outDir[f].historyId = outDir[g].historyId

\* C7's case: a document of an earlier run and one of the current run with
\* the same fully-qualified name, from cases that differ in classname and
\* name, with different identifiers and timestamps.
C7_Witness ==
    /\ run = 2
    /\ \E f, g \in ResultFiles :
         /\ \A i \in 1..Len(hist) : hist[i].file # f
         /\ \E i \in 1..Len(hist) : hist[i].file = g
         /\ outDir[f].fullName = outDir[g].fullName
         /\ outDir[f].historyId = outDir[g].historyId
         /\ outDir[f].uuid # outDir[g].uuid
         /\ outDir[f].name # outDir[g].name
         /\ outDir[f].start # outDir[g].start
         /\ outDir[f].stop # outDir[g].stop

\* C8: when no input file is found, main reports "No XML files found." and
\* ends with exit status 2, a status no other failure has, and nothing is
\* written to the output directory.
C8_NoFilesExitsWith2 ==
    /\ pc = "exited" /\ files = <<>> =>
         /\ exitStatus = 2
         /\ \E i \in 1..Len(stderr) : stderr[i] = "No XML files found."
         /\ DOMAIN outDir = {}
         /\ hist = <<>>
    /\ pc = "exited" /\ files # <<>> => exitStatus # 2

\* C9: the cases of a suite form a sequential timeline: the first case
\* starts at the container's start, every later case starts at the stop of
\* the case before it, and no two spans of the suite overlap, for every
\* combination of time attributes.
C9_SequentialTimeline ==
    \A c \in ContainerFiles :
        LET d == outDir[c]
            ch == ChildDocs(d)
        IN /\ Len(ch) > 0 => ch[1].start = d.start
           /\ \A i \in 2..Len(ch) : ch[i].start = ch[i - 1].stop
           /\ \A i, j \in 1..Len(ch) : i < j => ~Overlap(ch[i], ch[j])

\* The documents convert_file writes for a well-formed file: one container
\* for each suite and one result for each case.
FileConverted(p) ==
    \A s \in 1..Len(suites_of(inDir[p].root)) :
        /\ \E i \in Events("container") :
             /\ hist[i].path = p /\ hist[i].si = s
             /\ hist[i].file \in DOMAIN outDir
        /\ \A j \in 1..Len(suites_of(inDir[p].root)[s].testcases) :
             \E i \in Events("result") :
                /\ hist[i].path = p /\ hist[i].si = s /\ hist[i].ci = j
                /\ hist[i].file \in DOMAIN outDir

\* C10: the files are converted one at a time in sorted order, each to its
\* end before the next. When the parse of file i fails, the documents of
\* the files before i are in the output directory, no file after i is
\* converted, and no executor document is written, --write-executor or
\* not; when every file converts, the executor document is written at most
\* once, after the last file.
C10_FailFastInOrder ==
    /\ \A i \in 1..Len(files) : \A j \in 1..Len(files) :
         i < j => files[i] < files[j]
    /\ \A i \in 2..Len(hist) :
         /\ hist[i - 1].kind # "executor"
         /\ hist[i].kind # "executor" => hist[i - 1].path <= hist[i].path
    /\ \A i \in 1..Len(hist) :
         hist[i].kind # "executor" =>
            /\ \E k \in 1..Len(files) : k <= fi /\ hist[i].path = files[k]
            /\ inDir[hist[i].path].wellformed
    /\ \A k \in 1..Len(files) :
         k < fi => inDir[files[k]].wellformed /\ FileConverted(files[k])
    /\ pc = "exited" /\ exitStatus = 1 /\ files # <<>> =>
         /\ fi \in 1..Len(files)
         /\ ~inDir[files[fi]].wellformed
         /\ \A k \in 1..(fi - 1) : FileConverted(files[k])
         /\ \A i \in 1..Len(hist) : hist[i].path < files[fi]
         /\ Events("executor") = {}
         /\ ExecutorFile \notin DOMAIN outDir
    /\ Cardinality(Events("executor")) <= 1
    /\ Events("executor") # {} =>
         /\ Completed
         /\ args.write_executor
         /\ hist[Len(hist)].kind = "executor"
         /\ \A p \in DOMAIN inDir : inDir[p].wellformed /\ FileConverted(p)

\* C10's case: with --write-executor, the parse of the second file fails
\* after the first file's documents have been written.
C10_Witness ==
    /\ pc = "exited"
    /\ exitStatus = 1
    /\ args.write_executor
    /\ fi = 2
    /\ Cardinality(ResultFiles) >= 1
    /\ Cardinality(ContainerFiles) >= 1

=============================================================================
